---------------------------- MODULE Spec2Model ----------------------------
(***************************************************************************)
(* A model of backend/ats_score_engine.py: the rule-based scorer           *)
(* (ats_score and its four analyzers), the embedding scorer (ATSScorer,    *)
(* the process-wide singleton behind get_ats_scorer, and the module-level  *)
(* calculate_ats_score) and the insight generator (identify_strengths,     *)
(* identify_weaknesses, suggest_improvements).                             *)
(*                                                                         *)
(* Texts are sequences of one-character strings, so that lower(), split(), *)
(* substring tests and find() are computed as Python computes them.        *)
(* Floats are modelled as exact rationals <<numerator, denominator>>.      *)
(* A Python call ends either by returning a value or by raising, which is  *)
(* modelled as the records Ret(v) and Exc(e).                              *)
(***************************************************************************)
EXTENDS Integers, Sequences, FiniteSets, TLC

VARIABLES
    ats_scorer,      \* the module global _ats_scorer: PyNone or an ATSScorer
    provider,        \* environment: would get_sentence_transformer() succeed now
    constructed,     \* history: how many times ATSScorer() has been constructed
    loadCalls,       \* history: how many times get_sentence_transformer() ran
    encodeFailed,    \* history: some call on the instance had encode() raise
    last,            \* the most recent call: its arguments and how it ended
    ref,             \* an earlier call kept for comparison with a later one
    threads          \* the threads inside get_ats_scorer: where each one is

vars == <<ats_scorer, provider, constructed, loadCalls, encodeFailed, last, ref, threads>>

-----------------------------------------------------------------------------
(* Python values *)

PyNone == [type |-> "NoneType"]

PyStr(s) == [type |-> "str", val |-> s]

IsStr(x) == x.type = "str"

\* Python truthiness of None, a str or a list
Truthy(x) == x.type # "NoneType" /\ Len(x.val) > 0

PyList(l) == [type |-> "list", val |-> l]

Ret(v) == [kind |-> "return", value |-> v]

Exc(e) == [kind |-> "raise", exc |-> e]

Raised(r) == r.kind = "raise"

-----------------------------------------------------------------------------
(* Exact arithmetic standing for Python floats *)

RECURSIVE Gcd(_, _)
Gcd(a, b) == IF b = 0 THEN a ELSE Gcd(b, a % b)

Abs(n) == IF n < 0 THEN -n ELSE n

\* the rational n/d in lowest terms with a positive denominator
Rat(n, d) ==
    LET g == Gcd(Abs(n), Abs(d))
        s == IF d < 0 THEN -1 ELSE 1
    IN  <<(s * n) \div g, (s * d) \div g>>

RatInt(n) == <<n, 1>>

RatAdd(a, b) == Rat(a[1] * b[2] + b[1] * a[2], a[2] * b[2])

RatMul(a, b) == Rat(a[1] * b[1], a[2] * b[2])

RatLeq(a, b) == a[1] * b[2] <= b[1] * a[2]

RatMin(a, b) == IF RatLeq(a, b) THEN a ELSE b

\* round(x, 2): the nearest multiple of 1/100
RatRound2(a) == Rat((2 * 100 * a[1] + a[2]) \div (2 * a[2]), 100)

-----------------------------------------------------------------------------
(* str methods, on sequences of characters *)

Whitespace == {" ", "\n", "\t"}

\* the one character U+2022, the bullet
BulletChar == "<U+2022>"

UpperCase == <<"A","B","C","D","E","F","G","H","I","J","K","L","M",
               "N","O","P","Q","R","S","T","U","V","W","X","Y","Z">>

LowerCase == <<"a","b","c","d","e","f","g","h","i","j","k","l","m",
               "n","o","p","q","r","s","t","u","v","w","x","y","z">>

\* the lower-case letter of each upper-case letter
LowerOf == [c \in {UpperCase[i] : i \in DOMAIN UpperCase} |->
               LowerCase[CHOOSE i \in DOMAIN UpperCase : UpperCase[i] = c]]

LowerChar(c) == IF c \in DOMAIN LowerOf THEN LowerOf[c] ELSE c

\* str.lower()
Lower(s) == [i \in DOMAIN s |-> LowerChar(s[i])]

\* s[a:b] with 0-based, end-exclusive Python indices 0 <= a <= b <= len(s)
Slice(s, a, b) == SubSeq(s, a + 1, b)

\* does sub occur in s at 0-based offset p
OccursAt(s, sub, p) ==
    /\ p + Len(sub) <= Len(s)
    /\ \A k \in 1..Len(sub) : s[p + k] = sub[k]

\* sub in s
Contains(s, sub) == \E p \in 0..Len(s) : OccursAt(s, sub, p)

\* s.find(sub): the lowest offset, or -1
Find(s, sub) ==
    IF Contains(s, sub)
    THEN CHOOSE p \in 0..Len(s) :
            OccursAt(s, sub, p) /\ \A q \in 0..(p - 1) : ~OccursAt(s, sub, q)
    ELSE -1

RECURSIVE SplitFrom(_, _, _, _)
SplitFrom(s, i, cur, acc) ==
    IF i > Len(s)
    THEN IF cur = <<>> THEN acc ELSE Append(acc, cur)
    ELSE IF s[i] \in Whitespace
         THEN SplitFrom(s, i + 1, <<>>, IF cur = <<>> THEN acc ELSE Append(acc, cur))
         ELSE SplitFrom(s, i + 1, Append(cur, s[i]), acc)

\* s.split(): the maximal runs of non-whitespace characters, in order
Split(s) == SplitFrom(s, 1, <<>>, <<>>)

\* s.strip()
Strip(s) ==
    IF \A i \in DOMAIN s : s[i] \in Whitespace
    THEN <<>>
    ELSE LET a == CHOOSE i \in DOMAIN s :
                     s[i] \notin Whitespace /\ \A j \in 1..(i - 1) : s[j] \in Whitespace
             b == CHOOSE i \in DOMAIN s :
                     s[i] \notin Whitespace /\ \A j \in (i + 1)..Len(s) : s[j] \in Whitespace
         IN  SubSeq(s, a, b)

\* set(l)
SetOf(l) == {l[i] : i \in DOMAIN l}

-----------------------------------------------------------------------------
(* Regular expressions of the re module.  A pattern is a tree; Ends gives  *)
(* every offset at which a match that starts at offset i can end, so that  *)
(* re.search succeeds exactly when some start has an end.                  *)

Lit(w) == [op |-> "lit", str |-> w]

Chr(set) == [op |-> "chr", set |-> set]

NotChr(set) == [op |-> "nchr", set |-> set]

Cat(args) == [op |-> "seq", args |-> args]

Alt(args) == [op |-> "alt", args |-> args]

\* arg{min,max}; max = -1 stands for no upper limit
Rep(arg, min, max) == [op |-> "rep", arg |-> arg, min |-> min, max |-> max]

Star(arg) == Rep(arg, 0, -1)

Plus(arg) == Rep(arg, 1, -1)

Opt(arg) == Rep(arg, 0, 1)

WordB == [op |-> "wordb"]

EndOfString == [op |-> "eos"]

DigitChars == {"0","1","2","3","4","5","6","7","8","9"}

UpperChars == {UpperCase[i] : i \in DOMAIN UpperCase}

LowerChars == {LowerCase[i] : i \in DOMAIN LowerCase}

\* \w
WordChars == UpperChars \cup LowerChars \cup DigitChars \cup {"_"}

\* \s, \d, . and [^\n]
ReSpace == Chr(Whitespace)

ReDigit == Chr(DigitChars)

ReDot == NotChr({"\n"})

\* is c in the class, under re.IGNORECASE when ic
CharIn(c, set, ic) ==
    c \in set \/ (ic /\ \E x \in set : LowerChar(x) = LowerChar(c))

\* does sub occur in s at offset p, ignoring case when ic
LitAt(s, sub, p, ic) ==
    /\ p + Len(sub) <= Len(s)
    /\ \A k \in 1..Len(sub) :
          s[p + k] = sub[k] \/ (ic /\ LowerChar(s[p + k]) = LowerChar(sub[k]))

\* \b at offset i: exactly one of the characters around it is a word character
IsWordBoundary(s, i) ==
    LET before == i >= 1 /\ s[i] \in WordChars
        after == i < Len(s) /\ s[i + 1] \in WordChars
    IN  before # after

RECURSIVE Ends(_, _, _, _), SeqEnds(_, _, _, _, _), RepEnds(_, _, _, _, _, _, _)
Ends(r, s, i, ic) ==
    CASE r.op = "lit"   -> IF LitAt(s, r.str, i, ic) THEN {i + Len(r.str)} ELSE {}
      [] r.op = "chr"   -> IF i < Len(s) /\ CharIn(s[i + 1], r.set, ic) THEN {i + 1} ELSE {}
      [] r.op = "nchr"  -> IF i < Len(s) /\ ~CharIn(s[i + 1], r.set, ic) THEN {i + 1} ELSE {}
      [] r.op = "seq"   -> SeqEnds(r.args, 1, s, {i}, ic)
      [] r.op = "alt"   -> UNION {Ends(r.args[k], s, i, ic) : k \in DOMAIN r.args}
      [] r.op = "rep"   -> RepEnds(r.arg, r.min, r.max, s, {}, {i}, ic)
      [] r.op = "wordb" -> IF IsWordBoundary(s, i) THEN {i} ELSE {}
      [] r.op = "eos"   -> IF i = Len(s) \/ (i = Len(s) - 1 /\ s[Len(s)] = "\n")
                           THEN {i} ELSE {}

\* the ends of args[k..] begun at any offset of from
SeqEnds(args, k, s, from, ic) ==
    IF k > Len(args) \/ from = {} THEN from
    ELSE SeqEnds(args, k + 1, s, UNION {Ends(args[k], s, p, ic) : p \in from}, ic)

\* the ends of min..max more repetitions of arg begun at an offset of from;
\* done holds the ends already found
RepEnds(arg, min, max, s, done, from, ic) ==
    LET next == UNION {Ends(arg, s, p, ic) : p \in from}
    IN  IF min > 0
        THEN IF from = {} THEN {}
             ELSE RepEnds(arg, min - 1, IF max < 0 THEN max ELSE max - 1, s, {}, next, ic)
        ELSE IF max = 0 \/ from \subseteq done THEN done \cup from
        ELSE RepEnds(arg, 0, IF max < 0 THEN max ELSE max - 1, s,
                     done \cup from, next \ (done \cup from), ic)

\* the offsets at which a match of r starts in s
MatchStarts(r, s, ic) == {i \in 0..Len(s) : Ends(r, s, i, ic) # {}}

\* re.search(r, s) is not None
Search(r, s, ic) == \E i \in 0..Len(s) : Ends(r, s, i, ic) # {}

SetMin(S) == CHOOSE x \in S : \A y \in S : x <= y

SetMax(S) == CHOOSE x \in S : \A y \in S : x >= y

\* re.search(r, s).start(): a match is the leftmost one
SearchStart(r, s, ic) == SetMin(MatchStarts(r, s, ic))

\* re.search(r, s).end() of a pattern whose last quantifier is lazy and is
\* followed by a fixed character: the nearest end from the leftmost start
SearchEndLazy(r, s, ic) == SetMin(Ends(r, s, SearchStart(r, s, ic), ic))

\* len(re.findall(r, s[pos:])) of a pattern whose quantifiers are greedy and
\* whose matches are never empty: leftmost start, farthest end, and on from there
RECURSIVE FindAllCount(_, _, _, _)
FindAllCount(r, s, pos, ic) ==
    LET starts == {i \in pos..Len(s) : Ends(r, s, i, ic) # {}}
    IN  IF starts = {} THEN 0
        ELSE 1 + FindAllCount(r, s, SetMax(Ends(r, s, SetMin(starts), ic)), ic)

\* s.count(sub): occurrences that do not overlap, left to right
RECURSIVE CountFrom(_, _, _)
CountFrom(s, sub, pos) ==
    LET at == {p \in pos..Len(s) : OccursAt(s, sub, p)}
    IN  IF at = {} THEN 0 ELSE 1 + CountFrom(s, sub, SetMin(at) + Len(sub))

Count(s, sub) == CountFrom(s, sub, 0)

-----------------------------------------------------------------------------
(* check_sections *)

\* the dict sections of check_sections, in its order: the synonyms of each section
Sections ==
    << [name |-> "experience",
       keywords |->
         << <<"e","x","p","e","r","i","e","n","c","e">>,
            <<"w","o","r","k"," ","h","i","s","t","o","r","y">>,
            <<"p","r","o","f","e","s","s","i","o","n","a","l"," ","b","a","c","k","g","r","o","u","n","d">>,
            <<"e","m","p","l","o","y","m","e","n","t">>,
            <<"w","o","r","k"," ","e","x","p","e","r","i","e","n","c","e">>,
            <<"c","a","r","e","e","r"," ","h","i","s","t","o","r","y">>,
            <<"p","r","o","f","e","s","s","i","o","n","a","l"," ","e","x","p","e","r","i","e","n","c","e">>,
            <<"e","m","p","l","o","y","m","e","n","t"," ","h","i","s","t","o","r","y">>,
            <<"w","o","r","k"," ","b","a","c","k","g","r","o","u","n","d">>,
            <<"p","r","o","f","e","s","s","i","o","n","a","l"," ","j","o","u","r","n","e","y">> >>],
       [name |-> "education",
       keywords |->
         << <<"e","d","u","c","a","t","i","o","n">>,
            <<"a","c","a","d","e","m","i","c">>,
            <<"q","u","a","l","i","f","i","c","a","t","i","o","n">>,
            <<"d","e","g","r","e","e">>,
            <<"u","n","i","v","e","r","s","i","t","y">>,
            <<"c","o","l","l","e","g","e">>,
            <<"s","c","h","o","o","l">>,
            <<"c","e","r","t","i","f","i","c","a","t","i","o","n">>,
            <<"a","c","a","d","e","m","i","c"," ","b","a","c","k","g","r","o","u","n","d">>,
            <<"e","d","u","c","a","t","i","o","n","a","l"," ","b","a","c","k","g","r","o","u","n","d">>,
            <<"a","c","a","d","e","m","i","c"," ","q","u","a","l","i","f","i","c","a","t","i","o","n","s">>,
            <<"d","e","g","r","e","e","s">>,
            <<"c","e","r","t","i","f","i","c","a","t","i","o","n","s">>,
            <<"t","r","a","i","n","i","n","g">>,
            <<"c","o","u","r","s","e","s">> >>],
       [name |-> "skills",
       keywords |->
         << <<"s","k","i","l","l","s">>,
            <<"a","b","i","l","i","t","i","e","s">>,
            <<"c","o","m","p","e","t","e","n","c","i","e","s">>,
            <<"e","x","p","e","r","t","i","s","e">>,
            <<"p","r","o","f","i","c","i","e","n","c","i","e","s">>,
            <<"t","e","c","h","n","i","c","a","l"," ","s","k","i","l","l","s">>,
            <<"c","o","r","e"," ","c","o","m","p","e","t","e","n","c","i","e","s">>,
            <<"t","e","c","h","n","i","c","a","l"," ","e","x","p","e","r","t","i","s","e">>,
            <<"p","r","o","f","e","s","s","i","o","n","a","l"," ","s","k","i","l","l","s">>,
            <<"k","e","y"," ","s","k","i","l","l","s">>,
            <<"s","k","i","l","l"," ","s","e","t">>,
            <<"c","a","p","a","b","i","l","i","t","i","e","s">>,
            <<"t","e","c","h","n","i","c","a","l"," ","p","r","o","f","i","c","i","e","n","c","i","e","s">>,
            <<"a","r","e","a","s"," ","o","f"," ","e","x","p","e","r","t","i","s","e">> >>],
       [name |-> "summary",
       keywords |->
         << <<"s","u","m","m","a","r","y">>,
            <<"p","r","o","f","i","l","e">>,
            <<"o","b","j","e","c","t","i","v","e">>,
            <<"a","b","o","u","t"," ","m","e">>,
            <<"p","r","o","f","e","s","s","i","o","n","a","l"," ","s","u","m","m","a","r","y">>,
            <<"c","a","r","e","e","r"," ","o","b","j","e","c","t","i","v","e">>,
            <<"p","r","o","f","e","s","s","i","o","n","a","l"," ","p","r","o","f","i","l","e">>,
            <<"e","x","e","c","u","t","i","v","e"," ","s","u","m","m","a","r","y">>,
            <<"c","a","r","e","e","r"," ","s","u","m","m","a","r","y">>,
            <<"p","e","r","s","o","n","a","l"," ","s","t","a","t","e","m","e","n","t">>,
            <<"p","r","o","f","e","s","s","i","o","n","a","l"," ","o","v","e","r","v","i","e","w">>,
            <<"c","a","r","e","e","r"," ","p","r","o","f","i","l","e">>,
            <<"p","r","o","f","e","s","s","i","o","n","a","l"," ","s","t","a","t","e","m","e","n","t">> >>],
       [name |-> "projects",
       keywords |->
         << <<"p","r","o","j","e","c","t","s">>,
            <<"p","o","r","t","f","o","l","i","o">>,
            <<"p","r","o","j","e","c","t"," ","e","x","p","e","r","i","e","n","c","e">>,
            <<"p","r","o","j","e","c","t"," ","h","i","s","t","o","r","y">>,
            <<"p","r","o","j","e","c","t"," ","w","o","r","k">>,
            <<"p","r","o","j","e","c","t"," ","p","o","r","t","f","o","l","i","o">>,
            <<"p","r","o","j","e","c","t"," ","s","h","o","w","c","a","s","e">>,
            <<"p","r","o","j","e","c","t"," ","a","c","h","i","e","v","e","m","e","n","t","s">>,
            <<"p","r","o","j","e","c","t"," ","h","i","g","h","l","i","g","h","t","s">>,
            <<"p","r","o","j","e","c","t"," ","d","e","t","a","i","l","s">> >>],
       [name |-> "achievements",
       keywords |->
         << <<"a","c","h","i","e","v","e","m","e","n","t","s">>,
            <<"a","c","c","o","m","p","l","i","s","h","m","e","n","t","s">>,
            <<"a","w","a","r","d","s">>,
            <<"r","e","c","o","g","n","i","t","i","o","n">>,
            <<"h","o","n","o","r","s">>,
            <<"c","e","r","t","i","f","i","c","a","t","i","o","n","s">>,
            <<"p","r","o","f","e","s","s","i","o","n","a","l"," ","a","c","h","i","e","v","e","m","e","n","t","s">>,
            <<"k","e","y"," ","a","c","h","i","e","v","e","m","e","n","t","s">>,
            <<"n","o","t","a","b","l","e"," ","a","c","c","o","m","p","l","i","s","h","m","e","n","t","s">>,
            <<"a","w","a","r","d","s"," ","a","n","d"," ","r","e","c","o","g","n","i","t","i","o","n">> >>] >>

\* the dict weights of check_sections
SectionWeight(name) ==
    CASE name = "experience" -> Rat(25, 100)
      [] name = "education" -> Rat(20, 100)
      [] name = "skills" -> Rat(20, 100)
      [] name = "summary" -> Rat(15, 100)
      [] name = "projects" -> Rat(10, 100)
      [] name = "achievements" -> Rat(10, 100)

\* the names of sections, as texts
SectionName(sec) ==
    CASE sec = "education"  -> <<"e","d","u","c","a","t","i","o","n">>
      [] sec = "experience" -> <<"e","x","p","e","r","i","e","n","c","e">>
      [] sec = "skills"     -> <<"s","k","i","l","l","s">>
      [] sec = "projects"   -> <<"p","r","o","j","e","c","t","s">>
      [] sec = "project"    -> <<"p","r","o","j","e","c","t">>
      [] sec = "skill"      -> <<"s","k","i","l","l">>

\* a local variable that has no value yet
Unbound == [type |-> "unbound"]

NewLine == Chr({"\n"})

\* header_patterns, the five f-strings built from the local keyword
HeaderPatterns(keyword) ==
    << Cat(<<WordB, Lit(keyword), Star(ReSpace), Chr({":"})>>),
       Cat(<<NewLine, Star(ReSpace), Lit(keyword), Star(ReSpace), NewLine>>),
       Cat(<<NewLine, Star(ReSpace), Lit(keyword), Star(ReSpace), Star(ReDot), NewLine,
             Star(ReSpace), Chr({"-", BulletChar, "*"})>>),
       Cat(<<NewLine, Star(ReSpace), Lit(keyword), Star(ReSpace), Star(ReDot), NewLine,
             Star(ReSpace), Chr(UpperChars)>>),
       Cat(<<NewLine, Star(ReSpace), Lit(keyword), Star(ReSpace), Star(ReDot), NewLine,
             Star(ReSpace), Plus(ReDigit), Chr({"."})>>) >>

\* the context pattern of the content check: a whole line holding keyword
ContextPattern(keyword) ==
    Cat(<<NewLine, Star(ReDot), Lit(keyword), Star(ReDot), NewLine>>)

\* the test of the content loop for one keyword
ContentDetected(resume_text, keyword) ==
    /\ Contains(Lower(resume_text), keyword)
    /\ Search(ContextPattern(keyword), resume_text, TRUE)
    /\ LET a == SearchStart(ContextPattern(keyword), resume_text, TRUE)
           b == SearchEndLazy(ContextPattern(keyword), resume_text, TRUE)
       IN  Len(Strip(Slice(resume_text, a, b))) > Len(keyword) + 5

\* one pass of the loop over sections.  The patterns are built from the local
\* keyword before the pass binds it, so they hold whatever the pass before
\* left in it, and .format() finds no field in them to replace.
SectionPass(resume_text, section, keyword) ==
    IF keyword = Unbound
    THEN Exc("UnboundLocalError")
    ELSE LET kws == section.keywords
             header_detected ==
                 \E k \in DOMAIN kws : \E p \in DOMAIN HeaderPatterns(keyword.val) :
                     Search(HeaderPatterns(keyword.val)[p], resume_text, TRUE)
             hits == {k \in DOMAIN kws : ContentDetected(resume_text, kws[k])}
             content_detected == hits # {}
         IN  Ret([score |-> IF header_detected THEN Rat(10, 10)
                            ELSE IF content_detected THEN Rat(7, 10)
                            ELSE Rat(0, 10),
                  keyword |-> PyStr(IF content_detected THEN kws[SetMin(hits)]
                                    ELSE kws[Len(kws)])])

RECURSIVE CheckSectionsFrom(_, _, _, _)
CheckSectionsFrom(resume_text, k, keyword, total_score) ==
    IF k > Len(Sections) THEN Ret(total_score)
    ELSE LET pass == SectionPass(resume_text, Sections[k], keyword)
         IN  IF Raised(pass) THEN pass
             ELSE CheckSectionsFrom(resume_text, k + 1, pass.value.keyword,
                     RatAdd(total_score,
                            RatMul(pass.value.score, SectionWeight(Sections[k].name))))

\* check_sections(resume_text): the local keyword is unbound on entry
CheckSections(resume_text) ==
    CheckSectionsFrom(resume_text, 1, Unbound, RatInt(0))

-----------------------------------------------------------------------------
(* get_skill_similarity: difflib.SequenceMatcher(None, a, b).ratio() *)

\* the length of the longest common run of a from offset i and b from offset j,
\* inside a[..ahi) and b[..bhi)
RECURSIVE RunLength(_, _, _, _, _, _)
RunLength(a, b, i, j, ahi, bhi) ==
    IF i < ahi /\ j < bhi /\ a[i + 1] = b[j + 1]
    THEN 1 + RunLength(a, b, i + 1, j + 1, ahi, bhi)
    ELSE 0

\* find_longest_match(alo, ahi, blo, bhi): the longest block, the earliest in a
\* among the longest, and the earliest in b among those
LongestMatch(a, b, alo, ahi, blo, bhi) ==
    LET pairs == (alo..(ahi - 1)) \X (blo..(bhi - 1))
        size(p) == RunLength(a, b, p[1], p[2], ahi, bhi)
        best == CHOOSE p \in pairs :
                    \A q \in pairs :
                        \/ size(p) > size(q)
                        \/ /\ size(p) = size(q)
                           /\ (p[1] < q[1] \/ (p[1] = q[1] /\ p[2] <= q[2]))
    IN  IF pairs = {} THEN <<alo, blo, 0>> ELSE <<best[1], best[2], size(best)>>

\* the total size of get_matching_blocks() over a[alo:ahi] and b[blo:bhi]
RECURSIVE MatchedSize(_, _, _, _, _, _)
MatchedSize(a, b, alo, ahi, blo, bhi) ==
    LET m == LongestMatch(a, b, alo, ahi, blo, bhi)
    IN  IF m[3] = 0 THEN 0
        ELSE m[3] + MatchedSize(a, b, alo, m[1], blo, m[2])
                  + MatchedSize(a, b, m[1] + m[3], ahi, m[2] + m[3], bhi)

\* get_skill_similarity(skill1, skill2): 2.0 * matches / total length
GetSkillSimilarity(skill1, skill2) ==
    LET a == Lower(skill1)
        b == Lower(skill2)
    IN  IF Len(a) + Len(b) = 0 THEN RatInt(1)
        ELSE Rat(2 * MatchedSize(a, b, 0, Len(a), 0, Len(b)), Len(a) + Len(b))

-----------------------------------------------------------------------------
(* check_keywords *)

\* the technical terms, worth 0.5
TechnicalTerms ==
    { <<"p","y","t","h","o","n">>,
      <<"j","a","v","a">>,
      <<"j","a","v","a","s","c","r","i","p","t">>,
      <<"r","e","a","c","t">>,
      <<"a","w","s">>,
      <<"c","l","o","u","d">>,
      <<"m","l">>,
      <<"a","i">>,
      <<"d","o","c","k","e","r">>,
      <<"k","u","b","e","r","n","e","t","e","s">>,
      <<"s","q","l">>,
      <<"n","o","s","q","l">>,
      <<"d","e","v","o","p","s">>,
      <<"s","e","c","u","r","i","t","y">> }

\* the framework and library terms, worth 0.3
FrameworkTerms ==
    { <<"r","e","a","c","t">>,
      <<"a","n","g","u","l","a","r">>,
      <<"v","u","e">>,
      <<"d","j","a","n","g","o">>,
      <<"f","l","a","s","k">>,
      <<"s","p","r","i","n","g">>,
      <<"e","x","p","r","e","s","s">>,
      <<"t","e","n","s","o","r","f","l","o","w">>,
      <<"p","y","t","o","r","c","h">>,
      <<"s","c","i","k","i","t","-","l","e","a","r","n">> }

\* the cloud and infrastructure terms, worth 0.4
CloudTerms ==
    { <<"a","w","s">>,
      <<"a","z","u","r","e">>,
      <<"g","c","p">>,
      <<"c","l","o","u","d">>,
      <<"s","3">>,
      <<"e","c","2">>,
      <<"l","a","m","b","d","a">>,
      <<"k","u","b","e","r","n","e","t","e","s">>,
      <<"d","o","c","k","e","r">>,
      <<"t","e","r","r","a","f","o","r","m">> }

PunctuationChars == {".", ",", ";", ":", "!", "?", "(", ")", "[", "]", "{", "}"}

\* re.sub(r'\s+', ' ', s): every run of whitespace becomes one space
Collapse(s) ==
    LET starts == SelectSeq([i \in DOMAIN s |-> i],
                            LAMBDA i : ~(s[i] \in Whitespace /\ i > 1 /\ s[i - 1] \in Whitespace))
    IN  [k \in DOMAIN starts |-> IF s[starts[k]] \in Whitespace THEN " " ELSE s[starts[k]]]

\* clean_resume: punctuation to spaces, whitespace collapsed, stripped
CleanResume(resume_text) ==
    LET spaced == [i \in DOMAIN resume_text |->
                      IF resume_text[i] \in PunctuationChars THEN " " ELSE resume_text[i]]
    IN  Strip(Collapse(spaced))

ContainsAny(kw, terms) == \E t \in terms : Contains(kw, t)

\* base_weight of one keyword
ImportanceWeight(kw) ==
    LET k == Lower(kw)
    IN  RatAdd(RatAdd(RatAdd(RatInt(1),
                             IF ContainsAny(k, TechnicalTerms) THEN Rat(5, 10) ELSE RatInt(0)),
                      IF ContainsAny(k, FrameworkTerms) THEN Rat(3, 10) ELSE RatInt(0)),
               IF ContainsAny(k, CloudTerms) THEN Rat(4, 10) ELSE RatInt(0))

\* the keys of keyword_importance in insertion order: the lower-cased keywords,
\* each once
RECURSIVE ImportanceKeys(_, _, _)
ImportanceKeys(job_keywords, i, acc) ==
    IF i > Len(job_keywords) THEN acc
    ELSE LET k == Lower(job_keywords[i])
         IN  ImportanceKeys(job_keywords, i + 1,
                            IF k \in SetOf(acc) THEN acc ELSE Append(acc, k))

RECURSIVE RatSum(_, _)
RatSum(seq, i) ==
    IF i > Len(seq) THEN RatInt(0) ELSE RatAdd(seq[i], RatSum(seq, i + 1))

LongParts(kw_parts) == SelectSeq(kw_parts, LAMBDA part : Len(part) > 3)

\* the body of the matching loop for one keyword: the factor it earns, 0 when it
\* matches nothing, or the exception it raises
MatchFactor(clean_resume, kw) ==
    LET kw_parts == Split(kw)
        long == LongParts(kw_parts)
        parts_positions == [i \in DOMAIN long |-> Find(clean_resume, long[i])]
        positions == SetOf(parts_positions)
        present == SelectSeq(kw_parts, LAMBDA part : Contains(clean_resume, part) /\ Len(part) > 3)
        words == Split(clean_resume)
        fuzzy == /\ Len(kw_parts) = 1
                 /\ Len(kw) > 3
                 /\ \E w \in DOMAIN words :
                       /\ Len(words[w]) > 3
                       /\ ~RatLeq(GetSkillSimilarity(kw, words[w]), Rat(8, 10))
        rest == IF fuzzy THEN Ret(Rat(6, 10)) ELSE Ret(RatInt(0))
        partial == IF Len(kw_parts) > 2 /\ 10 * Len(present) >= 7 * Len(kw_parts)
                   THEN Ret(Rat(7, 10))
                   ELSE rest
    IN  IF Contains(<<" ">> \o clean_resume \o <<" ">>, <<" ">> \o kw \o <<" ">>)
        THEN Ret(RatInt(1))
        ELSE IF Contains(kw, <<" ">>)
        THEN IF \A i \in DOMAIN long : Contains(clean_resume, long[i])
             THEN IF \A i \in DOMAIN long : parts_positions[i] # -1
                  THEN IF positions = {}
                       THEN Exc("ValueError")
                       ELSE IF SetMax(positions) - SetMin(positions) < 50
                            THEN Ret(Rat(9, 10))
                            ELSE partial
                  ELSE partial
             ELSE partial
        ELSE rest

\* the matching loop: matches as the sequence of [kw, value] it holds after the
\* keys from k on, or the exception that ends the loop
RECURSIVE MatchesFrom(_, _, _, _)
MatchesAfter(clean_resume, keys, k, matches, f) ==
    IF Raised(f) THEN f
    ELSE MatchesFrom(clean_resume, keys, k + 1,
            IF f.value = RatInt(0) THEN matches
            ELSE Append(matches,
                        [kw |-> keys[k],
                         value |-> RatMul(ImportanceWeight(keys[k]), f.value)]))

MatchesFrom(clean_resume, keys, k, matches) ==
    IF k > Len(keys) THEN Ret(matches)
    ELSE MatchesAfter(clean_resume, keys, k, matches, MatchFactor(clean_resume, keys[k]))

\* the pattern that finds a section inside check_keywords and
\* check_context_relevance: the first line that starts with the section name
SectionLinePattern(section) ==
    Cat(<<NewLine, Star(ReSpace), Lit(SectionName(section)), Star(ReDot), NewLine>>)

BonusSections == <<"experience", "skills", "projects">>

\* context_bonus: 0.1 for each section line that holds a matched keyword
ContextBonus(resume_text, matches) ==
    LET earns(section) ==
            /\ Search(SectionLinePattern(section), resume_text, TRUE)
            /\ LET a == SearchStart(SectionLinePattern(section), resume_text, TRUE)
                   b == SearchEndLazy(SectionLinePattern(section), resume_text, TRUE)
                   section_text == Lower(Slice(resume_text, a, b))
               IN  \E m \in DOMAIN matches : Contains(section_text, matches[m].kw)
        earned == SelectSeq(BonusSections, earns)
    IN  IF matches = <<>> THEN RatInt(0) ELSE Rat(Len(earned), 10)

\* the score check_keywords returns once the matching loop has ended with found
KeywordScore(resume_text, job_keywords, total_weight, found) ==
    IF Raised(found) THEN found
    ELSE LET matches == found.value
             weighted_score ==
                 RatMul(RatSum([i \in DOMAIN matches |-> matches[i].value], 1),
                        <<total_weight[2], total_weight[1]>>)
             density_bonus ==
                 RatMin(Rat(3, 10), Rat(5 * Len(matches), 10 * Len(job_keywords)))
             context_bonus == ContextBonus(resume_text, matches)
         IN  Ret(RatMin(RatInt(1),
                        RatAdd(RatAdd(weighted_score, density_bonus), context_bonus)))

\* the keys of keyword_importance and the matching loop over them
KeywordsOver(resume_text, job_keywords, keys) ==
    KeywordScore(resume_text, job_keywords,
                 RatSum([i \in DOMAIN keys |-> ImportanceWeight(keys[i])], 1),
                 MatchesFrom(CleanResume(resume_text), keys, 1, <<>>))

\* check_keywords(resume_text, job_keywords)
CheckKeywords(resume_text, job_keywords) ==
    IF job_keywords = <<>> THEN Ret(RatInt(0))
    ELSE KeywordsOver(resume_text, job_keywords, ImportanceKeys(job_keywords, 1, <<>>))

-----------------------------------------------------------------------------
(* check_formatting *)

AlnumChars == UpperChars \cup LowerChars \cup DigitChars

\* r'\n\s*\d+\.'
NumberedBulletPattern == Cat(<<NewLine, Star(ReSpace), Plus(ReDigit), Chr({"."})>>)

\* header_patterns of check_formatting
FormatHeaderPatterns ==
    << Cat(<<NewLine, Chr(UpperChars), Plus(Chr(UpperChars \cup Whitespace)), Chr({":"})>>),
       Cat(<<NewLine, Chr(UpperChars), Plus(Chr(UpperChars \cup Whitespace)), NewLine>>),
       Cat(<<NewLine, Chr(UpperChars), Plus(Chr(LowerChars)), ReSpace,
             Chr(UpperChars), Plus(Chr(LowerChars)), Chr({":"})>>),
       Cat(<<NewLine, Star(ReSpace), Plus(ReDigit), Chr({"."}), Star(ReSpace),
             Chr(UpperChars), Plus(Chr(LowerChars))>>) >>

MonthNames ==
    << <<"J","a","n">>, <<"F","e","b">>, <<"M","a","r">>, <<"A","p","r">>,
       <<"M","a","y">>, <<"J","u","n">>, <<"J","u","l">>, <<"A","u","g">>,
       <<"S","e","p">>, <<"O","c","t">>, <<"N","o","v">>, <<"D","e","c">> >>

\* date_patterns
DatePatterns ==
    << Cat(<<WordB, Alt([i \in DOMAIN MonthNames |-> Lit(MonthNames[i])]),
             Star(Chr(LowerChars)), Chr({" "}), Rep(ReDigit, 4, 4), WordB>>),
       Cat(<<WordB, Rep(ReDigit, 2, 2), Chr({"/"}), Rep(ReDigit, 2, 2), Chr({"/"}),
             Rep(ReDigit, 4, 4), WordB>>),
       Cat(<<WordB, Rep(ReDigit, 4, 4), Chr({"-"}), Rep(ReDigit, 2, 2), Chr({"-"}),
             Rep(ReDigit, 2, 2), WordB>>),
       Cat(<<WordB, Rep(ReDigit, 4, 4), Star(ReSpace), Chr({"-"}), Star(ReSpace),
             Alt(<<Lit(<<"P","r","e","s","e","n","t">>), Lit(<<"C","u","r","r","e","n","t">>), Lit(<<"N","o","w">>)>>), WordB>>) >>

\* contact_patterns: email, phone, LinkedIn, GitHub
ContactPatterns ==
    << Cat(<<WordB, Plus(Chr(AlnumChars \cup {".", "_", "%", "+", "-"})), Chr({"@"}),
             Plus(Chr(AlnumChars \cup {".", "-"})), Chr({"."}),
             Rep(Chr(UpperChars \cup LowerChars \cup {"|"}), 2, -1), WordB>>),
       Cat(<<WordB,
             Opt(Cat(<<Chr({"+"}), Rep(ReDigit, 1, 3), Opt(ReSpace)>>)),
             Alt(<<Cat(<<Chr({"("}), Rep(ReDigit, 3, 3), Chr({")"})>>), Rep(ReDigit, 3, 3)>>),
             Opt(Chr({"-", "."} \cup Whitespace)), Rep(ReDigit, 3, 3),
             Opt(Chr({"-", "."} \cup Whitespace)), Rep(ReDigit, 4, 4), WordB>>),
       Cat(<<Lit(<<"l","i","n","k","e","d","i","n",".","c","o","m","/","i","n","/">>), Plus(Chr(AlnumChars \cup {"_", "-"}))>>),
       Cat(<<Lit(<<"g","i","t","h","u","b",".","c","o","m","/">>), Plus(Chr(AlnumChars \cup {"_", "-"}))>>) >>

\* how many of the patterns re.search finds in the text
SearchCount(patterns, resume_text) ==
    Cardinality({p \in DOMAIN patterns : Search(patterns[p], resume_text, FALSE)})

\* the three-step scale of the bullet and header counts
DensityScore(count, high, mid) ==
    IF count >= high THEN Rat(35, 100)
    ELSE IF count >= mid THEN Rat(25, 100)
    ELSE IF count > 0 THEN Rat(15, 100)
    ELSE RatInt(0)

\* check_formatting(resume_text)
CheckFormatting(resume_text) ==
    LET bullet_count == Count(resume_text, <<BulletChar>>)
                        + Count(resume_text, <<"-", " ">>)
                        + Count(resume_text, <<"*", " ">>)
        numbered_bullets == FindAllCount(NumberedBulletPattern, resume_text, 0, FALSE)
        total_bullets == bullet_count + numbered_bullets
        header_counts == [p \in DOMAIN FormatHeaderPatterns |->
                             RatInt(FindAllCount(FormatHeaderPatterns[p], resume_text, 0, FALSE))]
        headers_count == RatSum(header_counts, 1)[1]
        date_formats_found == SearchCount(DatePatterns, resume_text)
        date_format_score == RatMin(Rat(15, 100), Rat(5 * date_formats_found, 100))
        contact_score == Rat(5 * SearchCount(ContactPatterns, resume_text), 100)
        format_score ==
            RatAdd(RatAdd(RatAdd(DensityScore(total_bullets, 10, 5),
                                 DensityScore(headers_count, 5, 3)),
                          date_format_score),
                   RatMin(Rat(15, 100), contact_score))
    IN  Ret(RatMin(format_score, RatInt(1)))

-----------------------------------------------------------------------------
(* check_context_relevance *)

KeySections == <<"experience", "project", "skill", "education">>

\* r'\n\s*[A-Z][A-Z\s]+\s*(?::|$)', searched ignoring case
NextSectionPattern ==
    Cat(<<NewLine, Star(ReSpace), Chr(UpperChars), Plus(Chr(UpperChars \cup Whitespace)),
          Star(ReSpace), Alt(<<Chr({":"}), EndOfString>>)>>)

\* what one section adds to context_score
SectionContribution(resume_text, job_keywords, section) ==
    IF ~Search(SectionLinePattern(section), resume_text, TRUE)
    THEN RatInt(0)
    ELSE LET section_start == SearchStart(SectionLinePattern(section), resume_text, TRUE)
             following == Slice(resume_text, section_start + 1, Len(resume_text))
             section_end ==
                 IF Search(NextSectionPattern, following, TRUE)
                 THEN section_start + 1 + SearchStart(NextSectionPattern, following, TRUE)
                 ELSE Len(resume_text)
             section_text == Lower(Slice(resume_text, section_start, section_end))
             section_keywords ==
                 Len(SelectSeq(job_keywords, LAMBDA kw : Contains(section_text, Lower(kw))))
             weight == IF section \in {"experience", "skill"} THEN Rat(4, 10) ELSE Rat(2, 10)
         IN  RatMul(Rat(section_keywords, Len(job_keywords)), weight)

\* check_context_relevance(resume_text, job_keywords)
CheckContextRelevance(resume_text, job_keywords) ==
    IF job_keywords = <<>> THEN Ret(RatInt(0))
    ELSE Ret(RatMin(RatSum([k \in DOMAIN KeySections |->
                               SectionContribution(resume_text, job_keywords, KeySections[k])], 1),
                    RatInt(1)))

-----------------------------------------------------------------------------
(* ats_score *)

\* job_keywords = [kw.strip() for kw in job_keywords if kw.strip()]
StrippedKeywords(job_keywords) ==
    LET stripped == [i \in DOMAIN job_keywords |-> Strip(job_keywords[i])]
    IN  SelectSeq(stripped, LAMBDA kw : kw # <<>>)

\* the analyzers in the order ats_score calls them, each on the lower-cased text
Analyzers == <<"check_sections", "check_keywords", "check_formatting", "check_context_relevance">>

Analyze(name, resume_text, job_keywords) ==
    CASE name = "check_sections" -> CheckSections(resume_text)
      [] name = "check_keywords" -> CheckKeywords(resume_text, job_keywords)
      [] name = "check_formatting" -> CheckFormatting(resume_text)
      [] name = "check_context_relevance" -> CheckContextRelevance(resume_text, job_keywords)

\* the weights of the final score
ScoreWeight(name) ==
    CASE name = "check_sections" -> Rat(25, 100)
      [] name = "check_keywords" -> Rat(35, 100)
      [] name = "check_formatting" -> Rat(20, 100)
      [] name = "check_context_relevance" -> Rat(20, 100)

\* the guard of ats_score: not resume_text or not job_keywords
EmptyInput_BothEmpty(resume_text, job_keywords) ==
    ~Truthy(resume_text) /\ ~Truthy(job_keywords)

EmptyInput(resume_text, job_keywords) ==
    ~Truthy(resume_text) \/ ~Truthy(job_keywords)

\* the component scores from analyzer k on: the weighted sum, or the exception
\* of the analyzer that raises, with the scores of the analyzers that ran
RECURSIVE WeightedFrom(_, _, _, _, _)
WeightedAfter(resume_text, job_keywords, k, final_score, ran, score) ==
    IF Raised(score)
    THEN [ret |-> score, ran |-> Append(ran, [analyzer |-> Analyzers[k], score |-> score])]
    ELSE WeightedFrom(resume_text, job_keywords, k + 1,
            RatAdd(final_score, RatMul(score.value, ScoreWeight(Analyzers[k]))),
            Append(ran, [analyzer |-> Analyzers[k], score |-> score]))

WeightedFrom(resume_text, job_keywords, k, final_score, ran) ==
    IF k > Len(Analyzers) THEN [ret |-> Ret(final_score), ran |-> ran]
    ELSE WeightedAfter(resume_text, job_keywords, k, final_score, ran,
                       Analyze(Analyzers[k], resume_text, job_keywords))

\* ats_score(resume_text, job_keywords): what it returns or raises, and the
\* analyzers it ran
Rounded(scored) ==
    IF Raised(scored.ret) THEN scored
    ELSE [ret |-> Ret(RatRound2(RatMul(scored.ret.value, RatInt(100)))),
          ran |-> scored.ran]

AtsScore(resume_text, job_keywords) ==
    IF EmptyInput(resume_text, job_keywords)
    THEN [ret |-> Ret(RatInt(0)), ran |-> <<>>]
    ELSE Rounded(WeightedFrom(Lower(resume_text.val),
                              StrippedKeywords(job_keywords.val), 1, RatInt(0), <<>>))

-----------------------------------------------------------------------------
(* The Similarity Provider: utils.model_loader.get_sentence_transformer()  *)
(* and the handle's encode().  It is outside this file; it is modelled as  *)
(* a deterministic map from a text to a vector, which the loader hands out *)
(* while the provider is up and which a call may find raising.             *)

SentenceTransformer == [type |-> "SentenceTransformer"]

EmbeddingTable == << <<5, 0>>, <<3, 4>>, <<4, 3>>, <<-4, 3>> >>

\* encode() of one text: a vector fixed by the text alone
Embed(x) ==
    IF IsStr(x)
    THEN EmbeddingTable[(Len(Split(x.val)) % Len(EmbeddingTable)) + 1]
    ELSE EmbeddingTable[1]

\* the integer square root, exact on the squared norms of EmbeddingTable
ISqrt(n) == CHOOSE r \in 0..n : r * r <= n /\ (r + 1) * (r + 1) > n

Dot(u, v) == u[1] * v[1] + u[2] * v[2]

\* sklearn.metrics.pairwise.cosine_similarity([u], [v])[0][0]
CosineSimilarity(u, v) == Rat(Dot(u, v), ISqrt(Dot(u, u)) * ISqrt(Dot(v, v)))

-----------------------------------------------------------------------------
(* class ATSScorer *)

\* ATSScorer._initialize_model: up says whether get_sentence_transformer()
\* returns a handle (TRUE) or raises (FALSE)
InitializeModel(self, up) ==
    IF up
    THEN [self EXCEPT !.model = SentenceTransformer, !.initialized = TRUE]
    ELSE [self EXCEPT !.initialized = FALSE]

\* ATSScorer.__init__
NewATSScorer(up) ==
    InitializeModel([type |-> "ATSScorer", model |-> PyNone, initialized |-> FALSE], up)

\* ATSScorer._basic_ats_score
BasicAtsScore_NoDerating(resume_text, job_description) ==
    IF ~IsStr(resume_text) \/ ~IsStr(job_description)
    THEN Exc("AttributeError")
    ELSE LET resume_words == SetOf(Split(Lower(resume_text.val)))
             job_words == SetOf(Split(Lower(job_description.val)))
             common_words == resume_words \cap job_words
             match_score == IF job_words # {}
                            THEN Rat(Cardinality(common_words) * 100, Cardinality(job_words))
                            ELSE RatInt(0)
         IN  Ret([ats_score |-> match_score,
                  format_analysis |->
                      [score |-> RatInt(50),
                       issues |-> <<"Basic analysis only">>,
                       suggestions |-> <<"Try again later for detailed format analysis">>],
                  content_analysis |->
                      [keyword_match |-> Cardinality(common_words),
                       missing_keywords |-> job_words \ resume_words,
                       suggestions |-> <<"Add missing keywords to improve ATS score">>]])

BasicAtsScore(resume_text, job_description) ==
    IF ~IsStr(resume_text) \/ ~IsStr(job_description)
    THEN Exc("AttributeError")
    ELSE LET resume_words == SetOf(Split(Lower(resume_text.val)))
             job_words == SetOf(Split(Lower(job_description.val)))
             common_words == resume_words \cap job_words
             match_score == IF job_words # {}
                            THEN Rat(Cardinality(common_words) * 100, Cardinality(job_words))
                            ELSE RatInt(0)
         IN  Ret([ats_score |-> RatMul(match_score, Rat(8, 10)),
                  format_analysis |->
                      [score |-> RatInt(50),
                       issues |-> <<"Basic analysis only">>,
                       suggestions |-> <<"Try again later for detailed format analysis">>],
                  content_analysis |->
                      [keyword_match |-> Cardinality(common_words),
                       missing_keywords |-> job_words \ resume_words,
                       suggestions |-> <<"Add missing keywords to improve ATS score">>]])

FormatSections == <<"education", "experience", "skills", "projects">>

\* ATSScorer._analyze_format
AnalyzeFormat(resume_text) ==
    IF ~IsStr(resume_text)
    THEN Exc("AttributeError")
    ELSE LET text == Lower(resume_text.val)
             found_sections == SelectSeq(FormatSections, LAMBDA sec : Contains(text, SectionName(sec)))
             missing == SetOf(FormatSections) \ SetOf(found_sections)
         IN  Ret([score |-> Rat(Len(found_sections) * 100, Len(FormatSections)),
                  issues |-> IF Len(found_sections) < Len(FormatSections)
                             THEN << <<"Missing sections: ", missing>> >>
                             ELSE <<>>,
                  suggestions |-> <<"Ensure all major sections are present",
                                    "Use consistent formatting throughout",
                                    "Include clear section headers">>])

\* list(s)[:5]: the first five of a set in its iteration order, which is
\* fixed within a process
FirstFive(s) ==
    IF Cardinality(s) <= 5 THEN s
    ELSE CHOOSE t \in SUBSET s : Cardinality(t) = 5

\* ATSScorer._analyze_content
AnalyzeContent(resume_text, job_description) ==
    IF ~IsStr(resume_text) \/ ~IsStr(job_description)
    THEN Exc("AttributeError")
    ELSE LET resume_words == SetOf(Split(Lower(resume_text.val)))
             job_words == SetOf(Split(Lower(job_description.val)))
             matching_keywords == resume_words \cap job_words
             missing_keywords == job_words \ resume_words
         IN  Ret([keyword_match |-> Cardinality(matching_keywords),
                  missing_keywords |-> missing_keywords,
                  suggestions |-> IF missing_keywords # {}
                                  THEN << <<"Add these keywords: ", FirstFive(missing_keywords)>> >>
                                  ELSE <<>>])

\* the try block of ATSScorer.calculate_ats_score; enc says whether the
\* provider's encode() returns ("ok") or raises ("raise") in this call
EmbeddingScore(self, resume_text, job_description, enc) ==
    IF self.model.type # "SentenceTransformer"
    THEN Exc("AttributeError")
    ELSE IF enc # "ok"
    THEN Exc("RuntimeError")
    ELSE LET resume_embedding == Embed(resume_text)
             job_embedding == Embed(job_description)
             similarity == CosineSimilarity(resume_embedding, job_embedding)
             format_analysis == AnalyzeFormat(resume_text)
             content_analysis == AnalyzeContent(resume_text, job_description)
         IN  IF Raised(format_analysis) THEN format_analysis
             ELSE IF Raised(content_analysis) THEN content_analysis
             ELSE Ret([ats_score |-> RatMul(similarity, RatInt(100)),
                       format_analysis |-> format_analysis.value,
                       content_analysis |-> content_analysis.value])

\* ATSScorer.calculate_ats_score: the branch the call leaves by ("basic" when
\* not initialized, else "try" or "except") and what it returns or raises
ScorerCalculate_NoFallback(self, resume_text, job_description, enc) ==
    IF ~self.initialized
    THEN [branch |-> "basic", ret |-> BasicAtsScore(resume_text, job_description)]
    ELSE [branch |-> "try", ret |-> EmbeddingScore(self, resume_text, job_description, enc)]

ScorerCalculate(self, resume_text, job_description, enc) ==
    IF ~self.initialized
    THEN [branch |-> "basic", ret |-> BasicAtsScore(resume_text, job_description)]
    ELSE LET tried == EmbeddingScore(self, resume_text, job_description, enc)
         IN  IF Raised(tried)
             THEN [branch |-> "except", ret |-> BasicAtsScore(resume_text, job_description)]
             ELSE [branch |-> "try", ret |-> tried]

\* ATSScorer.calculate_ats_score: the instance after the call
ScorerAfterCalculate_MarksFailed(self, resume_text, job_description, enc) ==
    IF ScorerCalculate(self, resume_text, job_description, enc).branch = "except"
    THEN [self EXCEPT !.initialized = FALSE]
    ELSE self

ScorerAfterCalculate(self, resume_text, job_description, enc) == self

-----------------------------------------------------------------------------
(* get_ats_scorer and the global _ats_scorer *)

\* does get_ats_scorer construct an ATSScorer, given the global
MustConstruct_WhenNotReady(global) ==
    global.type = "NoneType" \/ ~global.initialized

MustConstruct(global) == global.type = "NoneType"

\* get_ats_scorer: the global after the call, which is also what it returns
GetAtsScorer_Reloads(global, up) ==
    IF MustConstruct(global) THEN NewATSScorer(up)
    ELSE IF ~global.initialized THEN InitializeModel(global, up)
    ELSE global

GetAtsScorer(global, up) ==
    IF MustConstruct(global) THEN NewATSScorer(up) ELSE global

-----------------------------------------------------------------------------
(* The insight generator *)

\* the names the module binds at top level: its imports, logger, _ats_scorer,
\* and every def and class of the file
ModuleGlobals ==
    {"re", "os", "sys", "np", "pd", "List", "Dict", "Any", "Optional", "joblib",
     "cosine_similarity", "sparse", "SentenceTransformer", "SequenceMatcher",
     "logging", "get_sentence_transformer", "logger", "_ats_scorer",
     "_check_section_headers", "check_sections", "check_keywords",
     "get_skill_similarity", "check_formatting", "check_context_relevance",
     "ats_score", "ATSScorer", "get_ats_scorer", "calculate_ats_score",
     "identify_strengths", "identify_weaknesses", "suggest_improvements"}

\* the helpers the three insight functions call, in the order of the calls
InsightHelpers ==
    <<"extract_required_skills", "extract_skills", "extract_experience_level",
      "extract_experience_years", "extract_education_requirements",
      "extract_education", "is_well_formatted">>

\* the vocabularies of the fact extraction
SkillVocabulary ==
    << <<"p","y","t","h","o","n">>, <<"j","a","v","a">>, <<"s","q","l">>,
       <<"d","o","c","k","e","r">> >>

EducationVocabulary ==
    << <<"b","a","c","h","e","l","o","r">>, <<"m","a","s","t","e","r">>, <<"p","h","d">> >>

Digits == <<"0","1","2","3","4","5","6","7","8","9">>

\* the years a text states: the value of its first one-digit word, else 0
YearsIn(words) ==
    LET isDigit(w) == Len(w) = 1 /\ \E d \in DOMAIN Digits : Digits[d] = w[1]
        digits == SelectSeq(words, isDigit)
    IN  IF digits = <<>> THEN 0
        ELSE (CHOOSE d \in DOMAIN Digits : Digits[d] = digits[1][1]) - 1

\* the facts the helpers derive from the two texts
ExtractFacts(resume_text, job_description) ==
    IF ~IsStr(resume_text) \/ ~IsStr(job_description)
    THEN Exc("AttributeError")
    ELSE LET rw == Split(Lower(resume_text.val))
             jw == Split(Lower(job_description.val))
             inJob(v) == v \in SetOf(jw)
             inResume(v) == v \in SetOf(rw)
         IN  Ret([required_skills |-> SelectSeq(SkillVocabulary, inJob),
                  resume_skills |-> SelectSeq(SkillVocabulary, inResume),
                  exp_level |-> YearsIn(jw),
                  resume_exp |-> YearsIn(rw),
                  edu_req |-> SelectSeq(EducationVocabulary, inJob),
                  resume_edu |-> SelectSeq(EducationVocabulary, inResume),
                  well_formatted |-> Contains(resume_text.val, <<"\n">>)])

\* the helper calls of a try block: the first name that is not bound raises
\* NameError, before any fact is derived
InsightFacts(resume_text, job_description) ==
    IF \E i \in DOMAIN InsightHelpers : InsightHelpers[i] \notin ModuleGlobals
    THEN Exc("NameError")
    ELSE ExtractFacts(resume_text, job_description)

\* the list a try block builds from the facts
StrengthsFrom(f) ==
    LET matching_skills == SelectSeq(f.required_skills, LAMBDA sk : sk \in SetOf(f.resume_skills))
    IN  (IF matching_skills # <<>>
         THEN << <<"Strong match with required skills: ", matching_skills>> >> ELSE <<>>)
        \o (IF f.resume_exp >= f.exp_level
            THEN << <<"Meets or exceeds required experience level", f.exp_level>> >> ELSE <<>>)
        \o (IF \E i \in DOMAIN f.edu_req : f.edu_req[i] \in SetOf(f.resume_edu)
            THEN <<"Meets education requirements">> ELSE <<>>)
        \o (IF f.well_formatted
            THEN <<"Well-formatted resume with clear sections">> ELSE <<>>)

WeaknessesFrom(f) ==
    LET missing_skills == SelectSeq(f.required_skills, LAMBDA sk : sk \notin SetOf(f.resume_skills))
    IN  (IF missing_skills # <<>>
         THEN << <<"Missing required skills: ", missing_skills>> >> ELSE <<>>)
        \o (IF f.resume_exp < f.exp_level
            THEN << <<"Below required experience level", f.exp_level>> >> ELSE <<>>)
        \o (IF ~\E i \in DOMAIN f.edu_req : f.edu_req[i] \in SetOf(f.resume_edu)
            THEN <<"Does not meet education requirements">> ELSE <<>>)
        \o (IF ~f.well_formatted
            THEN <<"Resume format could be improved">> ELSE <<>>)

ImprovementsFrom(f) ==
    LET missing_skills == SelectSeq(f.required_skills, LAMBDA sk : sk \notin SetOf(f.resume_skills))
    IN  (IF missing_skills # <<>>
         THEN << <<"Add missing required skills: ", missing_skills>> >> ELSE <<>>)
        \o (IF f.resume_exp < f.exp_level
            THEN << <<"Highlight relevant experience to meet years requirement", f.exp_level>> >>
            ELSE <<>>)
        \o (IF ~\E i \in DOMAIN f.edu_req : f.edu_req[i] \in SetOf(f.resume_edu)
            THEN << <<"Consider adding education", f.edu_req>> >> ELSE <<>>)
        \o (IF ~f.well_formatted
            THEN <<"Improve resume formatting with clear sections and bullet points">>
            ELSE <<>>)

\* identify_strengths
IdentifyStrengths_NoExcept(resume_text, job_description) ==
    LET facts == InsightFacts(resume_text, job_description)
    IN  IF Raised(facts) THEN facts ELSE Ret(StrengthsFrom(facts.value))

IdentifyStrengths(resume_text, job_description) ==
    LET facts == InsightFacts(resume_text, job_description)
    IN  IF Raised(facts) THEN Ret(<<>>) ELSE Ret(StrengthsFrom(facts.value))

\* identify_weaknesses
IdentifyWeaknesses(resume_text, job_description) ==
    LET facts == InsightFacts(resume_text, job_description)
    IN  IF Raised(facts) THEN Ret(<<>>) ELSE Ret(WeaknessesFrom(facts.value))

\* suggest_improvements
SuggestImprovements(resume_text, job_description) ==
    LET facts == InsightFacts(resume_text, job_description)
    IN  IF Raised(facts) THEN Ret(<<>>) ELSE Ret(ImprovementsFrom(facts.value))

-----------------------------------------------------------------------------
(* The module-level calculate_ats_score *)

\* the dict of the except branch
ErrorResult ==
    [ats_score |-> RatInt(0),
     format_analysis |-> [score |-> RatInt(0), issues |-> <<>>, suggestions |-> <<>>],
     content_analysis |-> [keyword_match |-> 0, missing_keywords |-> {}, suggestions |-> <<>>],
     strengths |-> <<>>,
     weaknesses |-> <<>>,
     improvements |-> <<>>]

\* the try block: scorer is what get_ats_scorer() returned.  scored is the
\* branch of the scorer's method, stage the statement an exception came from
CalculateTry(scorer, resume_text, job_description, enc) ==
    LET result == ScorerCalculate(scorer, resume_text, job_description, enc)
        strengths == IdentifyStrengths(resume_text, job_description)
        weaknesses == IdentifyWeaknesses(resume_text, job_description)
        improvements == SuggestImprovements(resume_text, job_description)
    IN  IF Raised(result.ret)
        THEN [scored |-> result.branch, stage |-> "scoring", ret |-> result.ret]
        ELSE IF Raised(strengths)
        THEN [scored |-> result.branch, stage |-> "insight", ret |-> strengths]
        ELSE IF Raised(weaknesses)
        THEN [scored |-> result.branch, stage |-> "insight", ret |-> weaknesses]
        ELSE IF Raised(improvements)
        THEN [scored |-> result.branch, stage |-> "insight", ret |-> improvements]
        ELSE [scored |-> result.branch, stage |-> "none",
              ret |-> Ret([strengths |-> strengths.value,
                           weaknesses |-> weaknesses.value,
                           improvements |-> improvements.value] @@ result.ret.value)]

\* calculate_ats_score: the branch the call leaves by ("try" or "except") and
\* what it returns or raises
CalculateAtsScore_Reraises(scorer, resume_text, job_description, enc) ==
    LET tried == CalculateTry(scorer, resume_text, job_description, enc)
    IN  [branch |-> IF Raised(tried.ret) THEN "except" ELSE "try",
         scored |-> tried.scored, stage |-> tried.stage, ret |-> tried.ret]

CalculateAtsScore(scorer, resume_text, job_description, enc) ==
    LET tried == CalculateTry(scorer, resume_text, job_description, enc)
    IN  [branch |-> IF Raised(tried.ret) THEN "except" ELSE "try",
         scored |-> tried.scored, stage |-> tried.stage,
         ret |-> IF Raised(tried.ret) THEN Ret(ErrorResult) ELSE tried.ret]

-----------------------------------------------------------------------------
(* The inputs of the calls *)

\* resume texts: None, the empty text, and texts with and without sections
NoSectionsResume == PyStr(<<"P","y","t","h","o","n"," ","d","e","v","e","l","o","p","e","r">>)

AllSectionsResume == PyStr(<<"e","d","u","c","a","t","i","o","n"," ","e","x","p","e","r","i","e","n","c","e"," ","s","k","i","l","l","s"," ","p","r","o","j","e","c","t","s"," ","p","y","t","h","o","n">>)

HeadedResume == PyStr(<<"E","x","p","e","r","i","e","n","c","e",":","\n","-"," ","b","u","i","l","t"," ","p","y","t","h","o","n"," ","s","q","l"," ","d","o","c","k","e","r","\n","S","k","i","l","l","s",":"," ","j","a","v","a">>)

ResumeInputs == {PyNone, NoSectionsResume, AllSectionsResume}

ScoredResumeInputs == {PyNone, PyStr(<<>>), HeadedResume}

InsightResumeInputs == {PyNone, PyStr(<<>>), NoSectionsResume}

\* job descriptions: None, no words, two words, three words
JobInputs == {PyNone, PyStr(<<>>), PyStr(<<"p","y","t","h","o","n"," ","j","a","v","a">>), PyStr(<<"P","y","t","h","o","n"," ","S","Q","L"," ","d","o","c","k","e","r">>)}

InsightJobInputs == {PyNone, PyStr(<<"p","y","t","h","o","n"," ","j","a","v","a">>)}

\* keyword lists: None, the empty list, and lists of one and two keywords
KeywordInputs ==
    { PyNone,
      PyList(<<>>),
      PyList(<< <<"p","y","t","h","o","n">> >>),
      PyList(<< <<"p","y","t","h","o","n">>, <<"c","i"," ","c","d">> >>),
      PyList(<< <<" "," ">> >>) }

\* whether encode() returns or raises in a call: the provider's choice
EncodeOutcomes == {"ok", "raise"}

-----------------------------------------------------------------------------
(* The state machine: one action per call on the module *)

NoCall == [op |-> "none"]

\* the threads that call get_ats_scorer
Threads == {"t1", "t2"}

\* the most constructions of an ATSScorer a behaviour is followed through
MaxLoads == 2

Init ==
    /\ ats_scorer = PyNone
    /\ provider \in BOOLEAN
    /\ constructed = 0
    /\ loadCalls = 0
    /\ encodeFailed = FALSE
    /\ last = NoCall
    /\ ref = NoCall
    /\ threads = [t \in Threads |-> [pc |-> "test", made |-> PyNone, got |-> PyNone]]

\* ats_score(resume_text, job_keywords)
AtsScoreCall(resume_text, job_keywords, o) ==
    [op |-> "ats_score", a1 |-> resume_text, a2 |-> job_keywords,
     enc |-> "ok", out |-> o.ret, ran |-> o.ran]

CallAtsScore(resume_text, job_keywords) ==
        /\ last' = AtsScoreCall(resume_text, job_keywords, AtsScore(resume_text, job_keywords))
        /\ UNCHANGED <<ats_scorer, provider, constructed, loadCalls, encodeFailed, ref, threads>>

\* get_ats_scorer()
CallGetAtsScorer ==
    LET scorer == GetAtsScorer(ats_scorer, provider)
        built == IF MustConstruct(ats_scorer) THEN 1 ELSE 0
    IN  /\ MustConstruct(ats_scorer) => loadCalls < MaxLoads
        /\ ats_scorer' = scorer
        /\ constructed' = constructed + built
        /\ loadCalls' = loadCalls + built
        /\ last' = [op |-> "get_ats_scorer", a1 |-> PyNone, a2 |-> PyNone, enc |-> "ok",
                    out |-> Ret(scorer), up |-> provider]
        /\ UNCHANGED <<provider, encodeFailed, ref, threads>>

\* calculate_ats_score(resume_text, job_description), the module-level function
CalculateCall(resume_text, job_description, enc, up, o) ==
    [op |-> "calculate_ats_score", a1 |-> resume_text, a2 |-> job_description,
     enc |-> enc, out |-> o.ret, scored |-> o.scored, branch |-> o.branch,
     stage |-> o.stage, up |-> up]

CallCalculateAtsScore(resume_text, job_description, enc) ==
    LET scorer == GetAtsScorer(ats_scorer, provider)
        built == IF MustConstruct(ats_scorer) THEN 1 ELSE 0
    IN  /\ MustConstruct(ats_scorer) => loadCalls < MaxLoads
        /\ last' = CalculateCall(resume_text, job_description, enc, provider,
                        CalculateAtsScore(scorer, resume_text, job_description, enc))
        /\ ats_scorer' = ScorerAfterCalculate(scorer, resume_text, job_description, enc)
        /\ constructed' = constructed + built
        /\ loadCalls' = loadCalls + built
        /\ encodeFailed' = (encodeFailed \/ last'.scored = "except")
        /\ UNCHANGED <<provider, ref, threads>>

\* ATSScorer.calculate_ats_score on the instance get_ats_scorer() handed out
ScorerCall(resume_text, job_description, enc, o) ==
    [op |-> "ATSScorer.calculate_ats_score", a1 |-> resume_text,
     a2 |-> job_description, enc |-> enc, out |-> o.ret, scored |-> o.branch]

CallScorerCalculate(resume_text, job_description, enc) ==
    /\ ats_scorer.type = "ATSScorer"
    /\ last' = ScorerCall(resume_text, job_description, enc,
                    ScorerCalculate(ats_scorer, resume_text, job_description, enc))
    /\ ats_scorer' = ScorerAfterCalculate(ats_scorer, resume_text, job_description, enc)
    /\ encodeFailed' = (encodeFailed \/ last'.scored = "except")
    /\ UNCHANGED <<provider, constructed, loadCalls, ref, threads>>

\* identify_strengths(resume_text, job_description)
CallIdentifyStrengths(resume_text, job_description) ==
    /\ last' = [op |-> "identify_strengths", a1 |-> resume_text, a2 |-> job_description,
                enc |-> "ok", out |-> IdentifyStrengths(resume_text, job_description),
                failed |-> Raised(InsightFacts(resume_text, job_description))]
    /\ UNCHANGED <<ats_scorer, provider, constructed, loadCalls, encodeFailed, ref, threads>>

\* identify_weaknesses(resume_text, job_description)
CallIdentifyWeaknesses(resume_text, job_description) ==
    /\ last' = [op |-> "identify_weaknesses", a1 |-> resume_text, a2 |-> job_description,
                enc |-> "ok", out |-> IdentifyWeaknesses(resume_text, job_description),
                failed |-> Raised(InsightFacts(resume_text, job_description))]
    /\ UNCHANGED <<ats_scorer, provider, constructed, loadCalls, encodeFailed, ref, threads>>

\* suggest_improvements(resume_text, job_description)
CallSuggestImprovements(resume_text, job_description) ==
    /\ last' = [op |-> "suggest_improvements", a1 |-> resume_text, a2 |-> job_description,
                enc |-> "ok", out |-> SuggestImprovements(resume_text, job_description),
                failed |-> Raised(InsightFacts(resume_text, job_description))]
    /\ UNCHANGED <<ats_scorer, provider, constructed, loadCalls, encodeFailed, ref, threads>>

\* the environment: the provider becomes available, or stops being so
ProviderComesUp ==
    /\ ~provider
    /\ provider' = TRUE
    /\ UNCHANGED <<ats_scorer, constructed, loadCalls, encodeFailed, last, ref, threads>>

ProviderGoesDown ==
    /\ provider
    /\ provider' = FALSE
    /\ UNCHANGED <<ats_scorer, constructed, loadCalls, encodeFailed, last, ref, threads>>

Next ==
    \/ \E r \in ScoredResumeInputs, k \in KeywordInputs : CallAtsScore(r, k)
    \/ CallGetAtsScorer
    \/ \E r \in ResumeInputs, j \in JobInputs, enc \in EncodeOutcomes :
          CallCalculateAtsScore(r, j, enc)
    \/ \E r \in ResumeInputs, j \in JobInputs, enc \in EncodeOutcomes :
          CallScorerCalculate(r, j, enc)
    \/ \E r \in InsightResumeInputs, j \in InsightJobInputs : CallIdentifyStrengths(r, j)
    \/ \E r \in InsightResumeInputs, j \in InsightJobInputs : CallIdentifyWeaknesses(r, j)
    \/ \E r \in InsightResumeInputs, j \in InsightJobInputs : CallSuggestImprovements(r, j)
    \/ ProviderComesUp
    \/ ProviderGoesDown

Spec == Init /\ [][Next]_vars

-----------------------------------------------------------------------------
(* Repeated calls: a caller keeps the outcome of one call, to compare it   *)
(* with the outcome of a later call on the same arguments                  *)

RepeatedScoredInputs == {PyStr(<<>>), HeadedResume}

RepeatedKeywordInputs == {PyList(<< <<"p","y","t","h","o","n">> >>)}

RepeatedResumeInputs == {PyNone, NoSectionsResume}

RepeatedJobInputs == {PyStr(<<"P","y","t","h","o","n"," ","S","Q","L"," ","d","o","c","k","e","r">>)}

Remember ==
    /\ ref = NoCall
    /\ last # NoCall
    /\ ref' = last
    /\ UNCHANGED <<ats_scorer, provider, constructed, loadCalls, encodeFailed, last, threads>>

NextIdem ==
    \/ \E r \in RepeatedScoredInputs, k \in RepeatedKeywordInputs : CallAtsScore(r, k)
    \/ \E r \in RepeatedResumeInputs, j \in RepeatedJobInputs, enc \in EncodeOutcomes :
          CallCalculateAtsScore(r, j, enc)
    \/ \E r \in RepeatedResumeInputs, j \in RepeatedJobInputs, enc \in EncodeOutcomes :
          CallScorerCalculate(r, j, enc)
    \/ Remember
    \/ ProviderComesUp
    \/ ProviderGoesDown

SpecIdem == Init /\ [][NextIdem]_vars

-----------------------------------------------------------------------------
(* Concurrent first access: each thread runs get_ats_scorer one statement  *)
(* at a time.  The function takes no lock, so the statements of the        *)
(* threads interleave freely.                                              *)

\* an object as a thread sees it: two constructions give two objects, told
\* apart by id even when their fields are equal
Identified(obj, id) ==
    [type |-> obj.type, model |-> obj.model, initialized |-> obj.initialized, id |-> id]

\* line 484: if _ats_scorer is None
ThreadTest(t) ==
    /\ threads[t].pc = "test"
    /\ threads' = [threads EXCEPT ![t].pc =
                      IF MustConstruct(ats_scorer) THEN "construct" ELSE "return"]
    /\ UNCHANGED <<ats_scorer, provider, constructed, loadCalls, encodeFailed, last, ref>>

\* line 485, right-hand side: ATSScorer(), which runs the loader
ThreadConstruct(t) ==
    /\ threads[t].pc = "construct"
    /\ threads' = [threads EXCEPT
                      ![t].pc = "assign",
                      ![t].made = Identified(NewATSScorer(provider), constructed + 1)]
    /\ constructed' = constructed + 1
    /\ loadCalls' = loadCalls + 1
    /\ UNCHANGED <<ats_scorer, provider, encodeFailed, last, ref>>

\* line 485, the store: _ats_scorer = <the new object>
ThreadAssign(t) ==
    /\ threads[t].pc = "assign"
    /\ ats_scorer' = threads[t].made
    /\ threads' = [threads EXCEPT ![t].pc = "return"]
    /\ UNCHANGED <<provider, constructed, loadCalls, encodeFailed, last, ref>>

\* line 486: return _ats_scorer, which reads the global again
ThreadReturn(t) ==
    /\ threads[t].pc = "return"
    /\ threads' = [threads EXCEPT ![t].pc = "done", ![t].got = ats_scorer]
    /\ UNCHANGED <<ats_scorer, provider, constructed, loadCalls, encodeFailed, last, ref>>

NextThreads ==
    \/ \E t \in Threads : ThreadTest(t)
    \/ \E t \in Threads : ThreadConstruct(t)
    \/ \E t \in Threads : ThreadAssign(t)
    \/ \E t \in Threads : ThreadReturn(t)
    \/ ProviderComesUp
    \/ ProviderGoesDown

SpecThreads == Init /\ [][NextThreads]_vars

-----------------------------------------------------------------------------
(* Direct calls of check_keywords *)

\* check_keywords(resume_text, job_keywords) called on its own; matches is the
\* dictionary the matching loop has built when it ends
CallCheckKeywords(resume_text, job_keywords) ==
    /\ last' = [op |-> "check_keywords", a1 |-> PyStr(resume_text), a2 |-> PyList(job_keywords),
                enc |-> "ok",
                out |-> CheckKeywords(resume_text, job_keywords),
                matches |-> MatchesFrom(CleanResume(resume_text),
                                        ImportanceKeys(job_keywords, 1, <<>>), 1, <<>>)]
    /\ UNCHANGED <<ats_scorer, provider, constructed, loadCalls, encodeFailed, ref, threads>>

NextKeywords ==
    LET resumes ==
            { <<"p","y","t","h","o","n"," ","d","e","v","e","l","o","p","e","r">>,
              <<"d","e","v","e","l","o","p","e","r"," ","o","f"," ","p","y","t","h","o","n"," ","t","o","o","l","s">>,
              <<"p","y","t","h","o","n"," ","i","s"," ","u","s","e","d"," ","b","y"," ","e","v","e","r","y"," ","b","a","c","k","e","n","d"," ","t","e","a","m"," ","i","n"," ","t","h","e"," ","c","o","m","p","a","n","y",";"," ","s","e","n","i","o","r"," ","d","e","v","e","l","o","p","e","r">>,
              <<>>,
              <<"s","e","n","i","o","r"," ","d","a","t","a"," ","e","n","g","i","n","e","e","r">>,
              <<"c","i"," ","a","n","d"," ","c","d"," ","p","i","p","e","l","i","n","e","s"," ","f","o","r"," ","m","a","c","h","i","n","e"," ","l","e","a","r","n","i","n","g">>,
              <<"M","a","c","h","i","n","e"," ","l","e","a","r","n","i","n","g"," ","e","n","g","i","n","e","e","r",","," ","P","y","t","h","o","n">>,
              <<"s","e","n","i","o","r"," ","s","t","a","f","f"," ","e","n","g","i","n","e","e","r">> }
        keywords ==
            { << <<"p","y","t","h","o","n"," ","d","e","v","e","l","o","p","e","r">> >>,
              << <<"m","a","c","h","i","n","e"," ","l","e","a","r","n","i","n","g">>, <<"p","y","t","h","o","n">> >>,
              << <<"c","i"," ","c","d">> >>,
              << <<"p","y","t","h","o","n"," ","b","a","c","k","e","n","d"," ","d","e","v","e","l","o","p","e","r">> >>,
              << <<"p","y","t","h","o","n"," ","w","e","b"," ","d","e","v","e","l","o","p","e","r">> >>,
              << <<"s","e","n","i","o","r"," ","d","a","t","a"," ","e","n","g","i","n","e","e","r">>, <<"P","y","t","h","o","n"," ","D","e","v","e","l","o","p","e","r">> >>,
              << <<"a","w","s"," ","c","l","o","u","d">>, <<"p","y","t","h","n">> >> }
    IN  \E resume_text \in resumes, job_keywords \in keywords :
            CallCheckKeywords(resume_text, job_keywords)

SpecKeywords == Init /\ [][NextKeywords]_vars

-----------------------------------------------------------------------------
(* Properties *)

\* the calls that reach the process-wide scorer
ScorerFailed == ats_scorer.type = "ATSScorer" /\ ~ats_scorer.initialized

ScorerReady == ats_scorer.type = "ATSScorer" /\ ats_scorer.initialized

TextInputs(call) == IsStr(call.a1) /\ IsStr(call.a2)

\* the keys of an AnalysisResult
ResultKeys ==
    {"ats_score", "format_analysis", "content_analysis",
     "strengths", "weaknesses", "improvements"}

HasAllKeys(result) ==
    /\ DOMAIN result = ResultKeys
    /\ DOMAIN result.format_analysis = {"score", "issues", "suggestions"}
    /\ DOMAIN result.content_analysis = {"keyword_match", "missing_keywords", "suggestions"}

\* score = |resume_words \cap job_words| / |job_words| * 100 * 0.8, or 0 when
\* the job description has no words
IsOverlapScore(score, resume_text, job_description) ==
    LET resume_words == SetOf(Split(Lower(resume_text.val)))
        job_words == SetOf(Split(Lower(job_description.val)))
    IN  IF job_words = {} THEN score = RatInt(0)
        ELSE score[1] * Cardinality(job_words) * 10
                = score[2] * Cardinality(resume_words \cap job_words) * 100 * 8

SaysBasicOnly(result) ==
    \E i \in DOMAIN result.format_analysis.issues :
        result.format_analysis.issues[i] = "Basic analysis only"

IsList(v) == DOMAIN v = 1..Len(v)

InsightOps == {"identify_strengths", "identify_weaknesses", "suggest_improvements"}

\* C1: every ats_score call returns a number in [0, 100] with at most two
\* decimals, computed from four component scores that each lie in [0, 1].
AtsScoreInRange ==
    last.op = "ats_score" =>
        /\ ~Raised(last.out)
        /\ RatLeq(RatInt(0), last.out.value)
        /\ RatLeq(last.out.value, RatInt(100))
        /\ 100 % last.out.value[2] = 0
        /\ \A i \in DOMAIN last.ran :
              /\ ~Raised(last.ran[i].score)
              /\ RatLeq(RatInt(0), last.ran[i].score.value)
              /\ RatLeq(last.ran[i].score.value, RatInt(1))

\* C2: neither ats_score nor the module-level calculate_ats_score ever ends by
\* raising: every call of either returns a value.
EntryPointsNeverRaise ==
    last.op \in {"ats_score", "calculate_ats_score"} => ~Raised(last.out)

\* C3: while the scorer is not initialized, a calculate_ats_score call on two
\* texts returns a result with every required key, whose ats_score is the
\* word overlap times 0.8 and whose format issues say 'Basic analysis only'.
DegradedResult ==
    (last.op = "calculate_ats_score" /\ ScorerFailed /\ TextInputs(last)) =>
        /\ ~Raised(last.out)
        /\ HasAllKeys(last.out.value)
        /\ IsOverlapScore(last.out.value.ats_score, last.a1, last.a2)
        /\ SaysBasicOnly(last.out.value)

DegradedResultReached ==
    /\ last.op = "calculate_ats_score"
    /\ ScorerFailed
    /\ TextInputs(last)
    /\ ~Raised(last.out)
    /\ last.out.value.ats_score = Rat(80, 3)

\* C4: a calculate_ats_score call whose try block raised returns the all-zero
\* result with every list empty, and no call returns a partly built result.
TopLevelErrorResult ==
    last.op = "calculate_ats_score" =>
        /\ ~Raised(last.out)
        /\ HasAllKeys(last.out.value)
        /\ last.branch = "except" =>
              /\ last.out.value.ats_score = RatInt(0)
              /\ last.out.value.format_analysis =
                    [score |-> RatInt(0), issues |-> <<>>, suggestions |-> <<>>]
              /\ last.out.value.content_analysis =
                    [keyword_match |-> 0, missing_keywords |-> {}, suggestions |-> <<>>]
              /\ last.out.value.strengths = <<>>
              /\ last.out.value.weaknesses = <<>>
              /\ last.out.value.improvements = <<>>

TopLevelErrorReached ==
    /\ last.op = "calculate_ats_score"
    /\ last.branch = "except"
    /\ last.stage = "scoring"
    /\ ~Raised(last.out)

\* C5: an ats_score call on an empty resume text or an empty keyword list
\* returns exactly 0 and runs no analyzer.
EmptyInputScoresZero ==
    (last.op = "ats_score" /\ (last.a1 = PyStr(<<>>) \/ last.a2 = PyList(<<>>))) =>
        /\ last.out = Ret(RatInt(0))
        /\ last.ran = <<>>

EmptyInputReached ==
    \/ /\ last.op = "ats_score"
       /\ last.a1 = PyStr(<<>>)
       /\ Truthy(last.a2)
       /\ last.out = Ret(RatInt(0))
    \/ /\ last.op = "ats_score"
       /\ Truthy(last.a1)
       /\ last.a2 = PyList(<<>>)
       /\ last.out = Ret(RatInt(0))

\* a step that is a call of ATSScorer.calculate_ats_score on two texts
ScorerCallStep ==
    /\ last' # last
    /\ last'.op = "ATSScorer.calculate_ats_score"
    /\ TextInputs(last')

\* C6: a call of the scorer's method in which the embedding computation raises
\* returns the word-overlap result and leaves the instance as it was, and a
\* later call on the instance in which encode succeeds returns the
\* cosine-similarity result.
TransientEncodeError ==
    /\ [][(ScorerCallStep /\ ScorerReady /\ last'.enc = "raise") =>
             /\ last'.scored = "except"
             /\ ats_scorer' = ats_scorer
             /\ ~Raised(last'.out)
             /\ IsOverlapScore(last'.out.value.ats_score, last'.a1, last'.a2)
             /\ SaysBasicOnly(last'.out.value)]_vars
    /\ [][(ScorerCallStep /\ encodeFailed /\ ScorerReady /\ last'.enc = "ok") =>
             /\ last'.scored = "try"
             /\ ~Raised(last'.out)
             /\ last'.out.value.ats_score =
                   RatMul(CosineSimilarity(Embed(last'.a1), Embed(last'.a2)), RatInt(100))
             /\ ~SaysBasicOnly(last'.out.value)]_vars

TransientEncodeErrorReached ==
    /\ encodeFailed
    /\ ScorerReady
    /\ last.op = "ATSScorer.calculate_ats_score"
    /\ TextInputs(last)
    /\ last.scored = "try"
    /\ last.out.value.ats_score = RatInt(96)

\* a step that is a call of get_ats_scorer or of calculate_ats_score
AccessStep ==
    /\ last' # last
    /\ last'.op \in {"get_ats_scorer", "calculate_ats_score"}

\* C7: the ATSScorer is constructed at most once and the loader invoked at
\* most once, and once that initialisation has failed the scorer stays
\* uninitialized and every calculate_ats_score call takes the degraded path.
SingleInitialisation ==
    /\ [](constructed <= 1 /\ loadCalls <= 1)
    /\ [][ScorerFailed =>
             /\ ats_scorer'.type = "ATSScorer" /\ ~ats_scorer'.initialized
             /\ (last' # last /\ last'.op = "calculate_ats_score") =>
                   last'.scored = "basic"]_vars

SingleInitialisationReached ==
    /\ constructed = 1
    /\ loadCalls = 1
    /\ ScorerFailed
    /\ last.op = "calculate_ats_score"
    /\ last.up
    /\ last.scored = "basic"

\* C8 as stated: an access made while the provider is available leaves the
\* scorer initialized, also after an earlier attempt failed.
RetriedOnNextAccess ==
    (last.op \in {"get_ats_scorer", "calculate_ats_score"} /\ last.up) => ScorerReady

\* C8 as amended: no call attempts initialisation more than once, and an access
\* that finds the scorer uninitialized after a failed attempt does not invoke
\* the loader and hands out the same uninitialized instance, whether or not
\* the provider is available by then.
NeverRetried ==
    /\ [][loadCalls' <= loadCalls + 1]_vars
    /\ [][(AccessStep /\ ScorerFailed) =>
             /\ loadCalls' = loadCalls
             /\ ats_scorer' = ats_scorer
             /\ last'.op = "get_ats_scorer" => last'.out = Ret(ats_scorer)]_vars

NeverRetriedReached ==
    /\ last.op = "get_ats_scorer"
    /\ last.up
    /\ provider
    /\ ScorerFailed
    /\ loadCalls = 1

\* C9: a call of ats_score, of calculate_ats_score or of the scorer's method
\* ends as an earlier call of the same operation on the same arguments did,
\* when encode behaves alike in both.
RepeatedCallsAgree ==
    (/\ ref # NoCall
     /\ last.op = ref.op
     /\ last.a1 = ref.a1
     /\ last.a2 = ref.a2
     /\ last.enc = ref.enc) => last.out = ref.out

RepeatedCallsReached ==
    /\ ref # NoCall
    /\ ref.op = "calculate_ats_score"
    /\ last.op = "calculate_ats_score"
    /\ last.a1 = ref.a1
    /\ last.a2 = ref.a2
    /\ last.enc = ref.enc
    /\ last.up # ref.up
    /\ encodeFailed
    /\ ~Raised(last.out)
    /\ last.out.value.ats_score # RatInt(0)

\* C10: identify_strengths, identify_weaknesses and suggest_improvements
\* return a list on every input, the empty list when their fact extraction
\* fails, and no calculate_ats_score call is ended by them.
InsightNeverRaises ==
    /\ last.op \in InsightOps =>
          /\ ~Raised(last.out)
          /\ IsList(last.out.value)
          /\ last.failed => last.out.value = <<>>
    /\ last.op = "calculate_ats_score" =>
          /\ last.stage # "insight"
          /\ ~Raised(last.out)
          /\ IsList(last.out.value.strengths)
          /\ IsList(last.out.value.weaknesses)
          /\ IsList(last.out.value.improvements)

InsightFailureReached ==
    /\ last.op \in InsightOps
    /\ last.a1 = PyNone
    /\ last.failed
    /\ last.out = Ret(<<>>)

\* C11: when two threads make the first get_ats_scorer call concurrently,
\* ATSScorer is constructed at most once, the loader runs at most once, and
\* the threads that have returned hold the same instance.
ConcurrentFirstAccessSafe ==
    /\ constructed <= 1
    /\ loadCalls <= 1
    /\ \A s, t \in Threads :
          (threads[s].pc = "done" /\ threads[t].pc = "done") =>
              threads[s].got = threads[t].got

\* does the list hold the entry
Lists(list, entry) == \E i \in DOMAIN list : list[i] = entry

\* C12: identify_strengths on two texts returns a list that names the matched
\* skills when a required skill is among the resume's skills, and holds the
\* experience entry when the resume's years reach the required years, the
\* education entry when a required credential is in the resume, and the
\* formatting entry when the resume is well formatted.
StrengthsListed ==
    (last.op = "identify_strengths" /\ TextInputs(last)) =>
        LET f == ExtractFacts(last.a1, last.a2).value
            matching_skills ==
                SelectSeq(f.required_skills, LAMBDA sk : sk \in SetOf(f.resume_skills))
        IN  /\ ~Raised(last.out)
            /\ matching_skills # <<>> =>
                  Lists(last.out.value,
                        <<"Strong match with required skills: ", matching_skills>>)
            /\ f.resume_exp >= f.exp_level =>
                  Lists(last.out.value,
                        <<"Meets or exceeds required experience level", f.exp_level>>)
            /\ (\E i \in DOMAIN f.edu_req : f.edu_req[i] \in SetOf(f.resume_edu)) =>
                  Lists(last.out.value, "Meets education requirements")
            /\ f.well_formatted =>
                  Lists(last.out.value, "Well-formatted resume with clear sections")

\* what a keyword has contributed to matches: its entry, or nothing
Contribution(matches, kw) ==
    IF \E i \in DOMAIN matches : matches[i].kw = kw
    THEN (matches[CHOOSE i \in DOMAIN matches : matches[i].kw = kw]).value
    ELSE RatInt(0)

\* C13: in a check_keywords call that returns, a multi-word keyword without an
\* exact phrase match contributes 0.9 of its weight when all its sub-words
\* longer than 3 characters are in the cleaned resume with first occurrences
\* less than 50 characters apart; otherwise it contributes 0.7 of its weight
\* when at least 70% of those sub-words are in the cleaned resume; and it never
\* contributes more than its weight.
MultiWordTiers ==
    (last.op = "check_keywords" /\ ~Raised(last.matches)) =>
        LET clean_resume == CleanResume(last.a1.val)
            keys == ImportanceKeys(last.a2.val, 1, <<>>)
            tiered(kw) ==
                LET long == LongParts(Split(kw))
                    present == SelectSeq(long, LAMBDA part : Contains(clean_resume, part))
                    positions == {Find(clean_resume, long[j]) : j \in DOMAIN long}
                    weight == ImportanceWeight(kw)
                    contributed == Contribution(last.matches.value, kw)
                IN  /\ RatLeq(contributed, weight)
                    /\ IF Len(present) = Len(long) /\ SetMax(positions) - SetMin(positions) < 50
                       THEN contributed = RatMul(weight, Rat(9, 10))
                       ELSE 10 * Len(present) >= 7 * Len(long) =>
                                contributed = RatMul(weight, Rat(7, 10))
        IN  \A i \in DOMAIN keys :
                (/\ Contains(keys[i], <<" ">>)
                 /\ ~Contains(<<" ">> \o clean_resume \o <<" ">>, <<" ">> \o keys[i] \o <<" ">>)
                 /\ LongParts(Split(keys[i])) # <<>>) => tiered(keys[i])

====
